---- MODULE Spec2Model ----
(***************************************************************************)
(* State-machine model of finance_tracker.py (FinanceTrackerApp).          *)
(*                                                                         *)
(* The application is a single-threaded Tk program: every handler runs to  *)
(* completion on the event loop, so each handler is one atomic action.     *)
(* The pandas, csv and float() conversions the handlers rely on are        *)
(* modelled by what they do to the values that flow through them.          *)
(***************************************************************************)
EXTENDS Integers, Sequences, FiniteSets, TLC

VARIABLES
    file_exists,          \* os.path.exists(CSV_FILE)
    file,                 \* lines of CSV_FILE, each a sequence of CSV fields
    data,                 \* self.data: [columns, rows]
    record_type,          \* self.record_type (radio buttons)
    category_values,      \* self.category_combo['values']
    category_var,         \* self.category_var
    amount_entry,         \* text of self.amount_entry, a sequence of characters
    description_entry,    \* text of self.description_entry
    filter_type_var,      \* self.filter_type_var
    filter_category_var,  \* self.filter_category_var
    treeview,             \* rows of self.treeview, each the value list of a row
    plot_frame,           \* children of self.plot_frame
    current_tab,          \* selected tab of self.notebook
    msgs,                 \* messagebox dialogs shown by the handler that ran last
    exported,             \* content of the file the last successful export wrote
    lastOp                \* the handler that ran last and the faults it met

vars == <<file_exists, file, data, record_type, category_values, category_var,
          amount_entry, description_entry, filter_type_var,
          filter_category_var, treeview, plot_frame, current_tab, msgs,
          exported, lastOp>>

----------------------------------------------------------------------------
(* Bounds of the exploration *)

MaxRows == 2      \* rows the dataset may hold before Save is no longer explored
MaxCat == 1       \* how many entries of each category list the user picks from
MaxLoad == 3      \* rows of a persisted table found at startup

----------------------------------------------------------------------------
(* Configuration, lines 15-20 *)

COLUMNS == <<"date", "type", "category", "amount", "description">>

CATEGORIES ==
    [Expense |-> <<"Food", "Transport", "Shopping", "Bills", "Entertainment",
                   "Health", "Other Expense">>,
     Income  |-> <<"Salary", "Bonus", "Investment", "Gift", "Other Income">>]

TABS == <<"Add Record", "History", "Dashboard">>

----------------------------------------------------------------------------
(* Generic helpers *)

Range(s) == {s[i] : i \in DOMAIN s}

Min(a, b) == IF a < b THEN a ELSE b

Prefix(s, n) == SubSeq(s, 1, Min(n, Len(s)))

RECURSIVE SeqSum(_)
SeqSum(s) == IF s = <<>> THEN 0 ELSE Head(s) + SeqSum(Tail(s))

RECURSIVE SortedSeq(_)
\* the elements of a finite set of integers in ascending order
SortedSeq(S) ==
    IF S = {} THEN <<>>
    ELSE LET m == CHOOSE a \in S : \A b \in S : a <= b
         IN <<m>> \o SortedSeq(S \ {m})

----------------------------------------------------------------------------
(* Values held by a cell of a DataFrame / a field of a CSV line.           *)
(* t is the Python type, s the text of a str, n the number it carries.     *)
(* A date is the number y*10000 + m*100 + d; a str holding a formatted     *)
(* date has s = "%Y-%m-%d" and n = that number.                            *)

Str(s) == [t |-> "str", s |-> s, n |-> 0]
DateText(n) == [t |-> "str", s |-> "%Y-%m-%d", n |-> n]
Float(n) == [t |-> "float", s |-> "", n |-> n]
NaN == [t |-> "float", s |-> "nan", n |-> 0]
Timestamp(n) == [t |-> "Timestamp", s |-> "", n |-> n]
NaT == [t |-> "NaT", s |-> "", n |-> 0]
Period(n) == [t |-> "Period[M]", s |-> "", n |-> n]

IsNaN(c) == c = NaN \/ c = NaT

----------------------------------------------------------------------------
(* str.strip() and float() on the text of the amount entry, line 199 and   *)
(* line 208.  Texts are sequences of one-character strings.  The numerals  *)
(* explored are optionally signed runs of decimal digits and "nan".        *)

DigitVal == [d \in {"0", "1", "2", "3", "4", "5", "6", "7", "8", "9"} |->
               CASE d = "0" -> 0 [] d = "1" -> 1 [] d = "2" -> 2 [] d = "3" -> 3
                 [] d = "4" -> 4 [] d = "5" -> 5 [] d = "6" -> 6 [] d = "7" -> 7
                 [] d = "8" -> 8 [] d = "9" -> 9]

RECURSIVE LStrip(_)
LStrip(s) == IF s # <<>> /\ Head(s) = " " THEN LStrip(Tail(s)) ELSE s

RECURSIVE RStrip(_)
RStrip(s) == IF s # <<>> /\ s[Len(s)] = " "
             THEN RStrip(SubSeq(s, 1, Len(s) - 1)) ELSE s

strip(s) == RStrip(LStrip(s))

RECURSIVE DecimalValue(_)
DecimalValue(s) == IF s = <<>> THEN 0
                   ELSE 10 * DecimalValue(SubSeq(s, 1, Len(s) - 1))
                        + DigitVal[s[Len(s)]]

\* float(text): [ok |-> FALSE] stands for ValueError
ParseFloat(text) ==
    LET s    == strip(text)
        neg  == s # <<>> /\ Head(s) = "-"
        body == IF s # <<>> /\ Head(s) \in {"-", "+"} THEN Tail(s) ELSE s
    IN  IF body = <<"n", "a", "n">> THEN [ok |-> TRUE, val |-> NaN]
        ELSE IF body # <<>> /\ \A i \in DOMAIN body : body[i] \in DOMAIN DigitVal
        THEN [ok |-> TRUE,
              val |-> Float(IF neg THEN 0 - DecimalValue(body)
                                   ELSE DecimalValue(body))]
        ELSE [ok |-> FALSE, val |-> NaN]

\* Python's  amount <= 0 : every comparison with nan is False
LessEqualZero(c) == c # NaN /\ c.n <= 0

----------------------------------------------------------------------------
(* messagebox dialogs *)

showerror(title, text) == [kind |-> "showerror", title |-> title, text |-> text]
showinfo(title, text) == [kind |-> "showinfo", title |-> title, text |-> text]

\* ValidationError with the amount test written  amount < 0
ValidationError_ZeroAccepted(category, amount_str) ==
    IF category = ""
    THEN <<showerror("Validation Error", "Please select a category.")>>
    ELSE LET p == ParseFloat(amount_str)
         IN  IF ~p.ok
             THEN <<showerror("Validation Error", "Amount must be a valid number.")>>
             ELSE IF p.val # NaN /\ p.val.n < 0
             THEN <<showerror("Validation Error", "Amount must be a positive number.")>>
             ELSE <<>>

\* Input validation of save_record, lines 203-214: the dialogs it shows,
\* <<>> when the inputs pass
ValidationError(category, amount_str) ==
    IF category = ""
    THEN <<showerror("Validation Error", "Please select a category.")>>
    ELSE LET p == ParseFloat(amount_str)
         IN  IF ~p.ok
             THEN <<showerror("Validation Error", "Amount must be a valid number.")>>
             ELSE IF LessEqualZero(p.val)
             THEN <<showerror("Validation Error", "Amount must be a positive number.")>>
             ELSE <<>>

----------------------------------------------------------------------------
(* pandas: DataFrame construction, CSV writing and reading, concat *)

IndexOf(seq, x) == CHOOSE i \in DOMAIN seq : seq[i] = x

\* pd.DataFrame(columns=COLUMNS), line 52
EmptyDataFrame == [columns |-> COLUMNS, rows |-> <<>>]

\* pd.DataFrame(new_record, columns=COLUMNS), lines 216-224
NewRecordFrame(record_date, type, category, amount, description) ==
    [columns |-> COLUMNS,
     rows |-> << [c \in Range(COLUMNS) |->
                    CASE c = "date" -> record_date
                      [] c = "type" -> Str(type)
                      [] c = "category" -> Str(category)
                      [] c = "amount" -> amount
                      [] c = "description" -> Str(description)] >>]

\* The text to_csv writes for one value: missing values and empty strings
\* both give an empty field, a float gives its numeral
to_csv_field(c) ==
    IF IsNaN(c) \/ c = Str("") THEN [t |-> "csv", s |-> "", n |-> 0]
    ELSE IF c.t = "str" THEN [t |-> "csv", s |-> c.s, n |-> c.n]
    ELSE IF c.t = "float" THEN [t |-> "csv", s |-> "float", n |-> c.n]
    ELSE [t |-> "csv", s |-> "%Y-%m-%d", n |-> c.n]

\* The value read_csv gives for one field
read_csv_field(f) ==
    IF f.s = "" THEN NaN
    ELSE IF f.s = "float" THEN Float(f.n)
    ELSE [t |-> "str", s |-> f.s, n |-> f.n]

HeaderLine(columns) == [j \in DOMAIN columns |-> to_csv_field(Str(columns[j]))]

\* df.to_csv(..., index=False, header=header): the lines written
to_csv(df, header) ==
    (IF header THEN <<HeaderLine(df.columns)>> ELSE <<>>)
    \o [i \in DOMAIN df.rows |->
          [j \in DOMAIN df.columns |-> to_csv_field(df.rows[i][df.columns[j]])]]

\* pd.read_csv(CSV_FILE), line 51: the first line names the columns
read_csv(lines) ==
    LET columns == [j \in DOMAIN lines[1] |-> lines[1][j].s]
    IN  [columns |-> columns,
         rows |-> [i \in 1..(Len(lines) - 1) |->
                     [c \in Range(columns) |->
                        read_csv_field(lines[i + 1][IndexOf(columns, c)])]]]

\* pd.concat([a, b], ignore_index=True), line 234: rows of a then rows of b,
\* over the union of the columns, a value missing from a frame being NaN
concat(a, b) ==
    LET extra   == SelectSeq(b.columns, LAMBDA c : c \notin Range(a.columns))
        columns == a.columns \o extra
        widen(df) == [i \in DOMAIN df.rows |->
                        [c \in Range(columns) |->
                           IF c \in Range(df.columns) THEN df.rows[i][c]
                           ELSE NaN]]
    IN  [columns |-> columns, rows |-> widen(a) \o widen(b)]

\* load_data, lines 45-52
load_data(exists, lines) == IF exists THEN read_csv(lines) ELSE EmptyDataFrame

\* list(row) for every row of a frame, lines 263-265
RowValues(df) ==
    [i \in DOMAIN df.rows |-> [j \in DOMAIN df.columns |-> df.rows[i][df.columns[j]]]]

\* load_history_data inserting every row at position 0 instead of "end"
load_history_data_InsertFirst(df) ==
    [i \in DOMAIN df.rows |-> RowValues(df)[Len(df.rows) + 1 - i]]

\* load_history_data(filtered_df), lines 254-265: the rows the Treeview holds
\* afterwards (the old ones are deleted first)
load_history_data(df) == IF df.rows # <<>> THEN RowValues(df) ELSE <<>>

----------------------------------------------------------------------------
(* Inputs explored *)

\* texts typed into the amount entry
AmountTexts == { <<"x">>, <<"-", "5">>, <<"0">>, <<" ", "2", "0">>,
                 <<"n", "a", "n">> }

\* texts typed into the description entry (none has surrounding blanks, so
\* strip() returns them as they are)
Descriptions == {"", "lunch"}

\* values of datetime.now() when Save is pressed
ClockDates == {20240105}

\* datetime.now().strftime("%Y-%m-%d %H:%M:%S"), line 196
strftime(now) == DateText(now)

\* the first MaxCat entries of a category list
Pickable(values) == Range(Prefix(values, MaxCat))

\* no file has been exported
NoExport == [format |-> "", header |-> <<>>, rows |-> <<>>]

----------------------------------------------------------------------------
(* Construction: __init__, create_widgets and the create_*_frame methods,  *)
(* lines 27-182, for a given content of the working directory              *)

Startup(exists, lines) ==
    /\ file_exists = exists
    /\ file = lines
    /\ data = load_data(exists, lines)                    \* line 41
    /\ record_type = "Expense"                            \* line 101
    /\ category_values = CATEGORIES["Expense"]            \* line 112
    /\ category_var = ""
    /\ amount_entry = <<>>
    /\ description_entry = ""
    /\ filter_type_var = "All"                            \* line 143
    /\ filter_category_var = "All"                        \* line 148
    /\ treeview = load_history_data(load_data(exists, lines))   \* line 168
    /\ plot_frame = <<>>
    /\ current_tab = TABS[1]
    /\ msgs = <<>>
    /\ exported = NoExport
    /\ lastOp = [name |-> "__init__", faults |-> {}]

\* A persisted table left by earlier sessions: the header and the lines
\* save_record wrote for the given records
PersistedTable(records) ==
    <<HeaderLine(COLUMNS)>>
    \o [i \in DOMAIN records |-> to_csv(records[i], FALSE)[1]]

----------------------------------------------------------------------------
(* Entry form *)

\* lastOp after a handler: its name, or "widget" for an edit of a widget that
\* runs no handler of the application, and the faults it met
Touch(name, faults) ==
    /\ lastOp' = [name |-> name, faults |-> faults]

\* update_categories, lines 184-190: the list the combobox offers
update_categories(current_type) ==
    IF current_type \in DOMAIN CATEGORIES THEN CATEGORIES[current_type] ELSE <<>>

\* A click on a radio button (lines 102-103) sets the type and runs
\* update_categories
select_type(t) ==
    /\ current_tab = "Add Record"
    /\ record_type' = t
    /\ category_values' = update_categories(t)
    /\ category_var' = ""
    /\ msgs' = <<>> /\ exported' = exported
    /\ Touch("update_categories", {})
    /\ UNCHANGED <<file_exists, file, data, amount_entry, description_entry,
                   filter_type_var, filter_category_var, treeview, plot_frame,
                   current_tab>>

\* The read-only combobox (line 110) takes one of the values it offers
select_category(c) ==
    /\ current_tab = "Add Record"
    /\ c \in Pickable(category_values)
    /\ category_var' = c
    /\ msgs' = <<>> /\ exported' = exported
    /\ Touch("widget", {})
    /\ UNCHANGED <<file_exists, file, data, record_type, category_values,
                   amount_entry, description_entry, filter_type_var,
                   filter_category_var, treeview, plot_frame, current_tab>>

type_amount(text) ==
    /\ current_tab = "Add Record"
    /\ amount_entry' = text
    /\ msgs' = <<>> /\ exported' = exported
    /\ Touch("widget", {})
    /\ UNCHANGED <<file_exists, file, data, record_type, category_values,
                   category_var, description_entry, filter_type_var,
                   filter_category_var, treeview, plot_frame, current_tab>>

type_description(text) ==
    /\ current_tab = "Add Record"
    /\ description_entry' = text
    /\ msgs' = <<>> /\ exported' = exported
    /\ Touch("widget", {})
    /\ UNCHANGED <<file_exists, file, data, record_type, category_values,
                   category_var, amount_entry, filter_type_var,
                   filter_category_var, treeview, plot_frame, current_tab>>

\* AppendToFile with header=True on every write
AppendToFile_AlwaysHeader(exists, lines, new_df) == lines \o to_csv(new_df, TRUE)

\* lines 228-229: new_df.to_csv(CSV_FILE, index=False, mode='a',
\* header=is_new_file)
AppendToFile(exists, lines, new_df) == lines \o to_csv(new_df, ~exists)

\* DataAfterSave with the concat placed before the write
DataAfterSave_BeforeWrite(df, new_df, write_fails) == concat(df, new_df)

\* self.data after the try block of lines 227-242: the concat of line 234
\* is reached only when to_csv did not raise
DataAfterSave(df, new_df, write_fails) ==
    IF write_fails THEN df ELSE concat(df, new_df)

\* the dialog of the try block: line 231 or line 242
SaveDialogs(write_fails) ==
    IF write_fails
    THEN <<showerror("File Error", "An error occurred while saving the file")>>
    ELSE <<showinfo("Success", "Record saved successfully!")>>

\* save_record, lines 192-242.  now is datetime.now(); write_fails says
\* whether to_csv raises (the file cannot be opened for appending)
save_record(now, write_fails) ==
    /\ current_tab = "Add Record"
    /\ LET record_date == strftime(now)
           category    == category_var
           amount_str  == strip(amount_entry)
           description == description_entry
           errors      == ValidationError(category, amount_str)
       IN  IF errors # <<>>
           THEN /\ msgs' = errors
                /\ Touch("save_record", {})
                /\ UNCHANGED <<file_exists, file, data, category_var,
                               amount_entry, description_entry>>
           ELSE LET amount == ParseFloat(amount_str).val
                    new_df == NewRecordFrame(record_date, record_type, category,
                                             amount, description)
                IN  /\ Len(data.rows) < MaxRows
                    /\ msgs' = SaveDialogs(write_fails)
                    /\ data' = DataAfterSave(data, new_df, write_fails)
                    /\ Touch("save_record",
                             IF write_fails THEN {"to_csv"} ELSE {})
                    /\ IF write_fails
                       THEN UNCHANGED <<file_exists, file, category_var,
                                        amount_entry, description_entry>>
                       ELSE /\ file' = AppendToFile(file_exists, file, new_df)
                            /\ file_exists' = TRUE
                            /\ amount_entry' = <<>>
                            /\ description_entry' = ""
                            /\ category_var' = ""
    /\ exported' = exported
    /\ UNCHANGED <<record_type, category_values, filter_type_var,
                   filter_category_var, treeview, plot_frame, current_tab>>

----------------------------------------------------------------------------
(* History view *)

\* the boolean indexing of lines 276 and 281: the rows whose column equals
\* the selected value, in their order
RowsWhere(rows, column, value) ==
    SelectSeq(rows, LAMBDA r : r[column] = Str(value))

\* filtered_data with the category test applied to self.data instead of to
\* the frame the type test left
filtered_data_FromData(df, filter_type, filter_category) ==
    LET by_type == IF filter_type # "All"
                   THEN RowsWhere(df.rows, "type", filter_type)
                   ELSE df.rows
        by_category == IF filter_category # "All"
                       THEN RowsWhere(df.rows, "category", filter_category)
                       ELSE by_type
    IN  [columns |-> df.columns, rows |-> by_category]

\* apply_filter, lines 271-281: the frame handed to load_history_data
filtered_data(df, filter_type, filter_category) ==
    LET by_type == IF filter_type # "All"
                   THEN RowsWhere(df.rows, "type", filter_type)
                   ELSE df.rows
        by_category == IF filter_category # "All"
                       THEN RowsWhere(by_type, "category", filter_category)
                       ELSE by_type
    IN  [columns |-> df.columns, rows |-> by_category]

\* the values the two filter comboboxes offer, lines 144 and 150-151, of
\* which the first MaxCat categories of each type are picked
FilterTypes == {"All", "Income", "Expense"}
FilterCategories ==
    {"All"} \cup Pickable(CATEGORIES["Expense"]) \cup Pickable(CATEGORIES["Income"])

select_filter_type(value) ==
    /\ current_tab = "History"
    /\ filter_type_var' = value
    /\ msgs' = <<>> /\ exported' = exported
    /\ Touch("widget", {})
    /\ UNCHANGED <<file_exists, file, data, record_type, category_values,
                   category_var, amount_entry, description_entry,
                   filter_category_var, treeview, plot_frame, current_tab>>

select_filter_category(value) ==
    /\ current_tab = "History"
    /\ filter_category_var' = value
    /\ msgs' = <<>> /\ exported' = exported
    /\ Touch("widget", {})
    /\ UNCHANGED <<file_exists, file, data, record_type, category_values,
                   category_var, amount_entry, description_entry,
                   filter_type_var, treeview, plot_frame, current_tab>>

\* apply_filter, lines 267-283
apply_filter ==
    /\ current_tab = "History"
    /\ treeview' = load_history_data(
                       filtered_data(data, filter_type_var, filter_category_var))
    /\ msgs' = <<>> /\ exported' = exported
    /\ Touch("apply_filter", {})
    /\ UNCHANGED <<file_exists, file, data, record_type, category_values,
                   category_var, amount_entry, description_entry,
                   filter_type_var, filter_category_var, plot_frame, current_tab>>

----------------------------------------------------------------------------
(* Dashboard *)

\* Series.sum() skips missing values
AmountOf(c) == IF IsNaN(c) THEN 0 ELSE c.n

SumAmounts(rows) == SeqSum([i \in DOMAIN rows |-> AmountOf(rows[i]["amount"])])

\* line 301: self.data[self.data['type'] == 'Expense']
\*             .groupby('category')['amount'].sum()
\* a Series indexed by the categories that have Expense rows
expense_data(df) ==
    LET expenses == RowsWhere(df.rows, "type", "Expense")
        keys == {expenses[i]["category"].s : i \in
                   {j \in DOMAIN expenses : ~IsNaN(expenses[j]["category"])}}
    IN  [k \in keys |-> SumAmounts(RowsWhere(expenses, "category", k))]

\* pd.to_datetime accepts a Timestamp, a missing value and a formatted date
DateParses(c) == c.t = "Timestamp" \/ IsNaN(c) \/ (c.t = "str" /\ c.s = "%Y-%m-%d")

to_datetime(c) == IF IsNaN(c) THEN NaT ELSE Timestamp(c.n)

\* to_period with the day kept: to_period('D')
to_period_Day(c) == IF c = NaT THEN NaT ELSE Period(c.n)

\* Series.dt.to_period('M')
to_period(c) == IF c = NaT THEN NaT ELSE Period(c.n \div 100)

\* lines 317-318: the 'date' column converted in place and the 'month'
\* column assigned (added at the end when the frame has none)
WithMonth(df) ==
    LET columns == IF "month" \in Range(df.columns) THEN df.columns
                   ELSE Append(df.columns, "month")
    IN  [columns |-> columns,
         rows |-> [i \in DOMAIN df.rows |->
                     [c \in Range(columns) |->
                        IF c = "date" THEN to_datetime(df.rows[i]["date"])
                        ELSE IF c = "month"
                        THEN to_period(to_datetime(df.rows[i]["date"]))
                        ELSE df.rows[i][c]]]]

\* the order groupby and unstack give the type labels
TypeOrder == <<"Expense", "Income">>

\* line 320: groupby(['month', 'type'])['amount'].sum().unstack(fill_value=0)
\* of a frame that has its 'month' column: one row per month in ascending
\* order, one column per type that has rows, 0 where a month has no row of
\* a type
monthly_summary(df) ==
    LET grouped == SelectSeq(df.rows, LAMBDA r : r["month"] # NaT /\ ~IsNaN(r["type"]))
        months  == {grouped[i]["month"].n : i \in DOMAIN grouped}
        types   == {grouped[i]["type"].s : i \in DOMAIN grouped}
        cell(m, t) == SumAmounts(SelectSeq(grouped,
                         LAMBDA r : r["month"].n = m /\ r["type"].s = t))
    IN  [index   |-> SortedSeq(months),
         columns |-> SelectSeq(TypeOrder, LAMBDA t : t \in types),
         values  |-> [m \in months |-> [t \in types |-> cell(m, t)]]]

Widget(kind, series) == [widget |-> kind, series |-> series]

EmptyStateLabel ==
    Widget("Label", "No data to display. Please add some records first.")

\* the first try block, lines 300-313: the canvases packed, the dialogs shown
\* and the faults met; pie_fails says whether drawing the pie raises
PieChart(df, pie_fails) ==
    LET series == expense_data(df)
    IN  IF DOMAIN series = {} THEN [widgets |-> <<>>, msgs |-> <<>>, faults |-> {}]
        ELSE IF pie_fails
        THEN [widgets |-> <<>>,
              msgs |-> <<showerror("Plot Error", "Error generating pie chart")>>,
              faults |-> {"pie"}]
        ELSE [widgets |-> <<Widget("pie", series)>>, msgs |-> <<>>, faults |-> {}]

\* the second try block, lines 316-334; bar_fails says whether drawing the
\* bars raises.  to_datetime raises before self.data is assigned when a date
\* does not parse
BarChart(df, bar_fails) ==
    IF \E i \in DOMAIN df.rows : ~DateParses(df.rows[i]["date"])
    THEN [data |-> df, widgets |-> <<>>,
          msgs |-> <<showerror("Plot Error", "Error generating bar chart")>>,
          faults |-> {"to_datetime"}]
    ELSE LET summary == monthly_summary(WithMonth(df))
         IN  IF summary.index = <<>>
             THEN [data |-> WithMonth(df), widgets |-> <<>>, msgs |-> <<>>,
                   faults |-> {}]
             ELSE IF bar_fails
             THEN [data |-> WithMonth(df), widgets |-> <<>>,
                   msgs |-> <<showerror("Plot Error", "Error generating bar chart")>>,
                   faults |-> {"bar"}]
             ELSE [data |-> WithMonth(df), widgets |-> <<Widget("bar", summary)>>,
                   msgs |-> <<>>, faults |-> {}]

\* create_dashboard_plots with both charts in one try block: a failure of
\* the pie chart skips the bar chart
create_dashboard_plots_OneTry(df, pie_fails, bar_fails) ==
    IF df.rows = <<>>
    THEN [data |-> df, plot_frame |-> <<EmptyStateLabel>>, msgs |-> <<>>,
          faults |-> {}]
    ELSE LET pie == PieChart(df, pie_fails)
             bar == BarChart(df, bar_fails)
         IN  IF pie.faults # {}
             THEN [data |-> df, plot_frame |-> <<>>, msgs |-> pie.msgs,
                   faults |-> pie.faults]
             ELSE [data |-> bar.data,
                   plot_frame |-> pie.widgets \o bar.widgets,
                   msgs |-> pie.msgs \o bar.msgs,
                   faults |-> pie.faults \cup bar.faults]

\* create_dashboard_plots, lines 285-334: self.data, the children of
\* plot_frame and the dialogs afterwards
create_dashboard_plots(df, pie_fails, bar_fails) ==
    IF df.rows = <<>>
    THEN [data |-> df, plot_frame |-> <<EmptyStateLabel>>, msgs |-> <<>>,
          faults |-> {}]
    ELSE LET pie == PieChart(df, pie_fails)
             bar == BarChart(df, bar_fails)
         IN  [data |-> bar.data,
              plot_frame |-> pie.widgets \o bar.widgets,
              msgs |-> pie.msgs \o bar.msgs,
              faults |-> pie.faults \cup bar.faults]

----------------------------------------------------------------------------
(* Notebook *)

\* on_tab_change, lines 244-252, for the <<NotebookTabChanged>> event that
\* selecting another tab raises
on_tab_change(tab, pie_fails, bar_fails) ==
    /\ tab # current_tab
    /\ current_tab' = tab
    /\ exported' = exported
    /\ IF tab = "History"
       THEN /\ treeview' = load_history_data(data)
            /\ msgs' = <<>>
            /\ Touch("on_tab_change", {})
            /\ UNCHANGED <<data, plot_frame>>
       ELSE IF tab = "Dashboard"
       THEN LET after == create_dashboard_plots(data, pie_fails, bar_fails)
            IN  /\ data' = after.data
                /\ plot_frame' = after.plot_frame
                /\ msgs' = after.msgs
                /\ Touch("on_tab_change", after.faults)
                /\ UNCHANGED treeview
       ELSE /\ msgs' = <<>>
            /\ Touch("on_tab_change", {})
            /\ UNCHANGED <<data, treeview, plot_frame>>
    /\ UNCHANGED <<file_exists, file, record_type, category_values,
                   category_var, amount_entry, description_entry,
                   filter_type_var, filter_category_var>>

----------------------------------------------------------------------------
(* Exporter *)

\* the table both exports write: the column labels, then every row
\* (to_excel(index=False), line 343; data_list, line 365)
ExportTable(format, df) ==
    [format |-> format, header |-> df.columns, rows |-> RowValues(df)]

\* export_to_excel, lines 336-348, and export_to_pdf, lines 350-386.
\* chosen says whether the file dialog returned a path, fault which
\* exception, if any, the export raises.  The PDF export imports ReportLab
\* before it asks for the path, the Excel export needs openpyxl only when
\* it writes
export(format, chosen, fault) ==
    /\ IF (format = "pdf" \/ chosen) /\ fault = "ImportError"
       THEN /\ msgs' = <<showerror("Library Missing",
                                   IF format = "xlsx" THEN "openpyxl" ELSE "ReportLab")>>
            /\ Touch("export", {fault})
            /\ UNCHANGED exported
       ELSE IF ~chosen
       THEN /\ msgs' = <<>>
            /\ Touch("export", {})
            /\ UNCHANGED exported
       ELSE IF fault = "Exception"
       THEN /\ msgs' = <<showerror("Export Error", format)>>
            /\ Touch("export", {fault})
            /\ UNCHANGED exported
       ELSE /\ exported' = ExportTable(format, data)
            /\ msgs' = <<showinfo("Export Successful", format)>>
            /\ Touch("export", {})
    /\ UNCHANGED <<file_exists, file, data, record_type, category_values,
                   category_var, amount_entry, description_entry,
                   filter_type_var, filter_category_var, treeview, plot_frame,
                   current_tab>>

export_to_excel(chosen, fault) == export("xlsx", chosen, fault)

export_to_pdf(chosen, fault) == export("pdf", chosen, fault)

----------------------------------------------------------------------------
(* Entry form and record store: the application used on the Add Record tab *)

\* the first start: no persisted file yet
Init == Startup(FALSE, <<>>)

Next ==
    \/ \E t \in DOMAIN CATEGORIES : select_type(t)
    \/ \E c \in Pickable(category_values) : select_category(c)
    \/ \E text \in AmountTexts : type_amount(text)
    \/ \E text \in Descriptions : type_description(text)
    \/ \E now \in ClockDates, write_fails \in BOOLEAN : save_record(now, write_fails)

Spec == Init /\ [][Next]_vars

----------------------------------------------------------------------------
(* Properties of the entry form and the record store *)

Saved == lastOp.name = "save_record" /\ msgs # <<>> /\ msgs[1].kind = "showinfo"

\* the form holds an input save_record must reject
RejectedInput ==
    \/ category_var = ""
    \/ ~ParseFloat(amount_entry).ok
    \/ /\ ParseFloat(amount_entry).val # NaN
       /\ ParseFloat(amount_entry).val.n <= 0

ExpectedLine(date, type, category, amount, description) ==
    << [t |-> "csv", s |-> "%Y-%m-%d", n |-> date],
       [t |-> "csv", s |-> type, n |-> 0],
       [t |-> "csv", s |-> category, n |-> 0],
       IF amount = NaN THEN [t |-> "csv", s |-> "", n |-> 0]
                       ELSE [t |-> "csv", s |-> "float", n |-> amount.n],
       [t |-> "csv", s |-> description, n |-> 0] >>

ExpectedHeader == [j \in 1..5 |-> [t |-> "csv", s |-> COLUMNS[j], n |-> 0]]

\* the file is absent and the dataset empty, or the file is one header line
\* followed by one line per row of the dataset, in the dataset's order
FileMirrorsData ==
    IF ~file_exists THEN file = <<>> /\ data.rows = <<>>
    ELSE /\ Len(file) = 1 + Len(data.rows)
         /\ file[1] = ExpectedHeader
         /\ \A i \in DOMAIN data.rows :
              /\ file[i + 1] # ExpectedHeader
              /\ file[i + 1][2].s = data.rows[i]["type"].s
              /\ file[i + 1][3].s = data.rows[i]["category"].s
              /\ file[i + 1][1].n = data.rows[i]["date"].n
              /\ file[i + 1][4].n = data.rows[i]["amount"].n
              /\ file[i + 1][5].s = (IF data.rows[i]["description"] = NaN THEN ""
                                     ELSE data.rows[i]["description"].s)

\* what a successful Save does to the file and the dataset
SaveAppendsOneRow ==
    \E now \in ClockDates :
      LET amount == ParseFloat(amount_entry).val
          line   == ExpectedLine(now, record_type, category_var, amount,
                                 description_entry)
      IN  /\ file' = (IF file_exists THEN file ELSE <<ExpectedHeader>>) \o <<line>>
          /\ file_exists'
          /\ data'.columns = data.columns
          /\ Len(data'.rows) = Len(data.rows) + 1
          /\ SubSeq(data'.rows, 1, Len(data.rows)) = data.rows
          /\ data'.rows[Len(data'.rows)] =
               [c \in Range(COLUMNS) |->
                  CASE c = "date" -> DateText(now)
                    [] c = "type" -> Str(record_type)
                    [] c = "category" -> Str(category_var)
                    [] c = "amount" -> amount
                    [] c = "description" -> Str(description_entry)]

\* C2: from an absent file, N successful saves leave exactly N data rows in the
\* file and in the dataset, in the order saved: the file is always the header
\* (written once) followed by one line per row of the dataset, every successful
\* Save extends both by exactly the saved record, at the end, and no other step
\* of the form touches either
C2_SavesAppendInOrder ==
    /\ []FileMirrorsData
    /\ [][ IF Saved' THEN SaveAppendsOneRow
           ELSE file' = file /\ file_exists' = file_exists /\ data' = data ]_vars

\* C2 witness: the file was absent at startup, two different records were
\* saved, and the file holds the header and their two lines
C2_Witness ==
    /\ Saved
    /\ Len(data.rows) = 2
    /\ Len(file) = 3
    /\ data.rows[1] # data.rows[2]

\* C4 (as claimed): every record of the dataset and every line of the file has
\* a positive amount and a category of its type's list
C4_SavedRecordsValid ==
    \A i \in DOMAIN data.rows :
      /\ data.rows[i]["amount"] # NaN
      /\ data.rows[i]["amount"].n > 0
      /\ data.rows[i]["category"].s \in Range(CATEGORIES[data.rows[i]["type"].s])

\* the form still holds inputs that pass validation
RetryPossible ==
    ENABLED (\E now \in ClockDates :
               /\ save_record(now, FALSE)
               /\ Len(data'.rows) = Len(data.rows) + 1)

WriteFailed == lastOp.name = "save_record" /\ "to_csv" \in lastOp.faults

\* C6: when the write of a valid record fails, one File Error dialog and no
\* success dialog is shown, the dataset, the file and the form are unchanged,
\* and a Save that appends exactly one row is possible right afterwards
C6_WriteFailureIsReported ==
    /\ [](WriteFailed => RetryPossible)
    /\ [][ WriteFailed' =>
             /\ Len(msgs') = 1
             /\ msgs'[1].kind = "showerror" /\ msgs'[1].title = "File Error"
             /\ data' = data
             /\ file' = file /\ file_exists' = file_exists
             /\ category_var' = category_var /\ amount_entry' = amount_entry
             /\ description_entry' = description_entry ]_vars

\* C6 witness: a write has just failed for a record that passed validation
C6_Witness ==
    /\ WriteFailed
    /\ category_var # "" /\ ParseFloat(amount_entry).ok
    /\ msgs[1].title = "File Error"

----------------------------------------------------------------------------
(* The views over a persisted table found at startup *)

\* lines of a persisted table: the record of the data model's example, and a
\* line whose date was edited by hand into something that is no date
StoredRecords ==
    { NewRecordFrame(strftime(20240105), "Expense", "Food", Float(20), ""),
      NewRecordFrame(strftime(20240110), "Income", "Salary", Float(1000), "pay"),
      NewRecordFrame(strftime(20240201), "Expense", "Food", Float(30), ""),
      NewRecordFrame(Str("yesterday"), "Expense", "Food", Float(20), "") }

RECURSIVE SeqsUpTo(_, _)
\* the sequences of at most n elements of S
SeqsUpTo(S, n) ==
    IF n = 0 THEN {<<>>}
    ELSE LET shorter == SeqsUpTo(S, n - 1)
         IN  shorter \cup {Append(q, x) : q \in shorter, x \in S}

InitLoaded ==
    \/ Startup(FALSE, <<>>)
    \/ \E records \in SeqsUpTo(StoredRecords, MaxLoad) :
         Startup(TRUE, PersistedTable(records))

ExportFaults == {"none", "ImportError", "Exception"}

\* History: the tabs Add Record and History, the filter and its controls
NextHistory ==
    \/ \E tab \in {"Add Record", "History"} : on_tab_change(tab, FALSE, FALSE)
    \/ \E value \in FilterTypes : select_filter_type(value)
    \/ \E value \in FilterCategories : select_filter_category(value)
    \/ apply_filter

SpecHistory == InitLoaded /\ [][NextHistory]_vars

\* Dashboard and exports: the three tabs and the File menu
NextDash ==
    \/ \E tab \in {"Add Record", "History"} : on_tab_change(tab, FALSE, FALSE)
    \/ \E pie_fails \in BOOLEAN, bar_fails \in BOOLEAN :
         on_tab_change("Dashboard", pie_fails, bar_fails)
    \/ \E chosen \in BOOLEAN, fault \in ExportFaults : export_to_excel(chosen, fault)
    \/ \E chosen \in BOOLEAN, fault \in ExportFaults : export_to_pdf(chosen, fault)

SpecDash == InitLoaded /\ [][NextDash]_vars

----------------------------------------------------------------------------
(* The whole window with a small form: saving, then looking at the views *)

\* records an earlier session may have left in the persisted table
PriorRecords ==
    { NewRecordFrame(strftime(20231220), "Income", "Salary", Float(1000), "") }

InitTabs ==
    \/ Startup(FALSE, <<>>)
    \/ \E r \in PriorRecords : Startup(TRUE, PersistedTable(<<r>>))

NextTabs ==
    \/ \E t \in DOMAIN CATEGORIES : select_type(t)
    \/ \E c \in Pickable(category_values) : select_category(c)
    \/ type_amount(<<" ", "2", "0">>)
    \/ \E now \in ClockDates, write_fails \in BOOLEAN : save_record(now, write_fails)
    \/ \E tab \in Range(TABS) : on_tab_change(tab, FALSE, FALSE)

SpecTabs == InitTabs /\ [][NextTabs]_vars

----------------------------------------------------------------------------
(* Properties of the views *)

\* C3 (as claimed): no handler but save_record changes the in-memory dataset
C3_OnlySaveMutatesData ==
    [][ lastOp'.name # "save_record" => data' = data ]_vars

\* a row passes the two filters now selected
MatchesFilter(r) ==
    /\ filter_type_var = "All" \/ (r["type"].t = "str" /\ r["type"].s = filter_type_var)
    /\ filter_category_var = "All"
         \/ (r["category"].t = "str" /\ r["category"].s = filter_category_var)

\* the value lists of the given rows, column by column
ValueLists(rows) ==
    [i \in DOMAIN rows |-> [j \in DOMAIN data.columns |-> rows[i][data.columns[j]]]]

\* C5: Apply Filter displays exactly the rows of the dataset whose type is the
\* selected type (any, for "All") and whose category is the selected category
\* (any, for "All"), in the dataset's order, and leaves the dataset as it was
C5_FilterShowsMatchingRows ==
    [][ lastOp'.name = "apply_filter" =>
          /\ data' = data
          /\ treeview' = ValueLists(SelectSeq(data.rows, MatchesFilter)) ]_vars

\* C5 witness: the filter Expense / All was applied to three rows of which the
\* first and the last are expenses, and these two are displayed
C5_Witness ==
    /\ lastOp.name = "apply_filter"
    /\ filter_type_var = "Expense" /\ filter_category_var = "All"
    /\ Len(data.rows) = 3
    /\ data.rows[2]["type"].s = "Income"
    /\ Len(treeview) = 2
    /\ treeview[1][1].n = 20240105 /\ treeview[2][1].n = 20240201

ExportSucceeded ==
    lastOp.name = "export" /\ msgs # <<>> /\ msgs[1].kind = "showinfo"

\* C7 (as claimed): a successful export writes the header date, type,
\* category, amount, description and then every row of the dataset, in order,
\* with these five columns; for an empty dataset, the header alone
C7_ExportWritesPersistedColumns ==
    [][ ExportSucceeded' =>
          /\ exported'.header = COLUMNS
          /\ exported'.rows =
               [i \in DOMAIN data.rows |-> [j \in 1..5 |-> data.rows[i][COLUMNS[j]]]]
      ]_vars

HistoryActivated == lastOp.name = "on_tab_change" /\ current_tab = "History"

\* C8: when the History tab becomes active the Treeview holds exactly the
\* rows of the dataset, in insertion order; a Save changes neither the
\* Treeview nor the Dashboard's charts
C8_HistoryRefreshedOnActivation ==
    [][ /\ HistoryActivated' =>
             /\ Len(treeview') = Len(data'.rows)
             /\ \A i \in DOMAIN data'.rows :
                  \A j \in DOMAIN data'.columns :
                    treeview'[i][j] = data'.rows[i][data'.columns[j]]
        /\ lastOp'.name = "save_record" =>
             treeview' = treeview /\ plot_frame' = plot_frame ]_vars

\* C8 witness: two records were saved, then the History tab was activated
\* and shows both
C8_Witness ==
    /\ HistoryActivated
    /\ Len(treeview) = 2
    /\ \A i \in 1..2 : treeview[i][1].n \in ClockDates

DashboardActivated == lastOp.name = "on_tab_change" /\ current_tab = "Dashboard"

HasWidget(frame, kind) == \E i \in DOMAIN frame : frame[i].widget = kind

SeriesOf(frame, kind) ==
    frame[CHOOSE i \in DOMAIN frame : frame[i].widget = kind].series

\* year-month of a row, whether its date is still text or already a Timestamp
MonthOf(r) == r["date"].n \div 100

\* sum of the amounts of the rows of one month and type
MonthTypeSum(m, t) ==
    SeqSum([i \in DOMAIN data.rows |->
              IF MonthOf(data.rows[i]) = m /\ data.rows[i]["type"].s = t
                   /\ data.rows[i]["amount"] # NaN
              THEN data.rows[i]["amount"].n ELSE 0])

\* sum of the amounts of the Expense rows of one category
ExpenseSum(k) ==
    SeqSum([i \in DOMAIN data.rows |->
              IF data.rows[i]["type"].s = "Expense" /\ data.rows[i]["category"].s = k
                   /\ data.rows[i]["amount"] # NaN
              THEN data.rows[i]["amount"].n ELSE 0])

MonthsPresent == {MonthOf(data.rows[i]) : i \in DOMAIN data.rows}
TypesPresent == {data.rows[i]["type"].s : i \in DOMAIN data.rows}
ExpenseCategories ==
    {data.rows[i]["category"].s :
       i \in {j \in DOMAIN data.rows : data.rows[j]["type"].s = "Expense"}}

\* the dataset is the example of the specification
IsExample ==
    /\ Len(data.rows) = 3
    /\ data.rows[1]["date"].n = 20240105 /\ data.rows[2]["date"].n = 20240110
    /\ data.rows[3]["date"].n = 20240201

\* Chart B lists the months of the data in ascending order and gives, for each
\* of them and each type of the given set, the sum of the amounts (0 when the
\* month has no row of the type); Chart A gives each category's expenses
ChartsAggregate(types) ==
    /\ HasWidget(plot_frame, "bar") =>
         LET bar == SeriesOf(plot_frame, "bar")
         IN  /\ Range(bar.index) = MonthsPresent
             /\ \A i, j \in DOMAIN bar.index : i < j => bar.index[i] < bar.index[j]
             /\ \A m \in MonthsPresent : \A t \in types :
                  /\ t \in DOMAIN bar.values[m]
                  /\ bar.values[m][t] = MonthTypeSum(m, t)
    /\ HasWidget(plot_frame, "pie") =>
         LET pie == SeriesOf(plot_frame, "pie")
         IN  /\ DOMAIN pie = ExpenseCategories
             /\ \A k \in ExpenseCategories : pie[k] = ExpenseSum(k)

\* C9 (as claimed): Chart B gives every month of the data a sum for each of
\* the two types, 0 for a type without rows in the month
C9_EveryMonthHasBothTypes ==
    DashboardActivated => ChartsAggregate({"Expense", "Income"})

\* C9 (amended): Chart B gives every month of the data a sum for each type
\* that occurs in the dataset, 0 when the month has no row of that type, the
\* months ascending; Chart A gives the sum of the Expense rows per category; on
\* the example they are {2024-01: {Expense: 20, Income: 1000}, 2024-02:
\* {Expense: 30, Income: 0}} and {Food: 50}
C9_ChartsAggregatePresentTypes ==
    DashboardActivated =>
      /\ ChartsAggregate(TypesPresent)
      /\ (IsExample /\ lastOp.faults = {}) =>
           /\ HasWidget(plot_frame, "bar") /\ HasWidget(plot_frame, "pie")
           /\ SeriesOf(plot_frame, "bar").index = <<202401, 202402>>
           /\ SeriesOf(plot_frame, "bar").values[202401] =
                [Expense |-> 20, Income |-> 1000]
           /\ SeriesOf(plot_frame, "bar").values[202402] =
                [Expense |-> 30, Income |-> 0]
           /\ SeriesOf(plot_frame, "pie") = [Food |-> 50]

\* C9 witness: the Dashboard was activated on the example and shows both
\* charts, Chart B with a 0 for the income of 2024-02
C9_Witness ==
    /\ DashboardActivated
    /\ IsExample
    /\ HasWidget(plot_frame, "pie")
    /\ HasWidget(plot_frame, "bar")
    /\ SeriesOf(plot_frame, "bar").values[202402]["Income"] = 0

PlotErrors(dialogs, chart) ==
    {i \in DOMAIN dialogs :
       /\ dialogs[i].kind = "showerror" /\ dialogs[i].title = "Plot Error"
       /\ dialogs[i].text = chart}

\* C10: activating the Dashboard on an empty dataset shows the empty-state
\* label, no chart and no dialog; on a non-empty dataset no label is shown,
\* every chart that fails gives one Plot Error dialog of its own, a failure
\* of the pie chart leaves the bar chart drawn and a failure of the bar chart
\* leaves the pie chart drawn, and the Dashboard stays the selected tab
C10_ChartsFailIndependently ==
    [][ DashboardActivated' =>
          IF data.rows = <<>>
          THEN /\ Len(plot_frame') = 1 /\ plot_frame'[1].widget = "Label"
               /\ msgs' = <<>>
          ELSE LET pieFailed == "pie" \in lastOp'.faults
                   barFailed == lastOp'.faults \cap {"to_datetime", "bar"} # {}
                   expenses  == \E i \in DOMAIN data.rows :
                                   data.rows[i]["type"].s = "Expense"
               IN  /\ ~HasWidget(plot_frame', "Label")
                   /\ Len(msgs') = Cardinality(lastOp'.faults)
                   /\ pieFailed <=>
                        PlotErrors(msgs', "Error generating pie chart") # {}
                   /\ barFailed <=>
                        PlotErrors(msgs', "Error generating bar chart") # {}
                   /\ ~barFailed => HasWidget(plot_frame', "bar")
                   /\ (~pieFailed /\ expenses) => HasWidget(plot_frame', "pie")
                   /\ current_tab' = "Dashboard" ]_vars

\* C10 witness: a date of the dataset does not parse, the bar chart failed
\* with its dialog, and the pie chart is drawn
C10_Witness ==
    /\ DashboardActivated
    /\ lastOp.faults = {"to_datetime"}
    /\ msgs = <<showerror("Plot Error", "Error generating bar chart")>>
    /\ HasWidget(plot_frame, "pie")
    /\ ~HasWidget(plot_frame, "bar")

====
